---- MODULE Spec2Model ----
(***************************************************************************)
(* JWT authentication gate of src/3c/ej3c2.py (Spec, SpecConc), and the    *)
(* library programs: the REST API of src/3b/ej3b2.py (SpecApi), the ORM    *)
(* functions of src/3b/ej3b1.py (SpecOrm), the sqlite3 program of          *)
(* src/3a/ej3a1.py (SpecSqlite) and the MongoDB program of                 *)
(* src/3a/ej3a4.py (SpecMongo).  Each specification moves the variables of *)
(* its own program and leaves the others at their initial values.          *)
(*                                                                         *)
(* Strings are sequences of character codes.  Codes 0..63 are the          *)
(* base64url alphabet in its standard order (A-Z = 0..25, a-z = 26..51,    *)
(* 0-9 = 52..61, '-' = 62, '_' = 63); BANG is a printable character        *)
(* outside that alphabet, DOT is '.', SP is ' ' and TAB is a tab.          *)
(*                                                                         *)
(* The token library called at lines 52, 90 and 170 (PyJWT 2.10, HS256) is *)
(* modelled by what it does: base64url without padding is computed bit for *)
(* bit; a JSON object is serialised in a fixed byte layout (one tag byte   *)
(* per key, then its value); HMAC-SHA256 is the ideal keyed hash, the key  *)
(* followed by the message, so that two signatures are equal exactly when  *)
(* key and message are.                                                    *)
(***************************************************************************)
EXTENDS Integers, Sequences, FiniteSets, TLC

VARIABLES clock, issued, phase, auth_header, raised, response, invoked, jwt_payload,
          login_out, ctx, attached,
          api_authors, api_books, api_last,
          authors, books, last_call,
          tablas, committed, working, in_transaction, tx_last,
          autores, libros, nombre_unique, next_oid, mongo_last

\* the library REST API of src/3b/ej3b2.py: the rows of its two tables and
\* the last request with its answer and whether it left the books as they
\* were
apivars == <<api_authors, api_books, api_last>>

\* the ORM functions of src/3b/ej3b1.py: the rows of the two tables behind
\* the session and the last call with what it returned
ormvars == <<authors, books, last_call>>

\* the sqlite3 program of src/3a/ej3a1.py: the tables that exist, the
\* committed content of the database, the content as the connection sees it
\* (its uncommitted changes included), whether the connection has a
\* transaction open, and the last call of ejemplo_transaccion
sqlvars == <<tablas, committed, working, in_transaction, tx_last>>

\* the MongoDB program of src/3a/ej3a4.py: the documents of the two
\* collections, whether autores.nombre has its unique index, the ObjectId
\* the next stored document gets, and the last call of ejemplo_transaccion
mongovars == <<autores, libros, nombre_unique, next_oid, mongo_last>>

dbvars == <<apivars, ormvars, sqlvars, mongovars>>

gatevars == <<clock, issued, phase, auth_header, raised, response, invoked, jwt_payload,
              login_out, ctx, attached>>

vars == <<gatevars, dbvars>>

\* the requests to the gate that are served side by side, each by its own
\* thread: ctx holds the handler's position and local variables per request,
\* attached what hangs on each request object
concvars == <<ctx, attached>>

\* -------------------------------------------------------------- bounds
T0 == 1000
MaxIssued == 2
NumReqs == 2
NumKeys == 2

\* ---------------------------------------------------------- characters
B64Size == 64
BANG == 64
DOT == 65
SP == 66
TAB == 67

IsB64(c) == c < B64Size
IsSpace(c) == c = SP \/ c = TAB

\* "Bearer", "bearer", "BEARER", "Token" in character codes
BearerWord == <<1, 30, 26, 43, 30, 43>>
bearer == <<27, 30, 26, 43, 30, 43>>
BEARERWord == <<1, 4, 0, 17, 4, 17>>
TokenWord == <<19, 40, 36, 30, 39>>

\* str.lower() on a word of the alphabet above
Lower(w) == [i \in 1..Len(w) |-> IF w[i] < 26 THEN w[i] + 26 ELSE w[i]]

\* str.split(): the maximal runs of non-whitespace characters, in order
Split(s) ==
    LET n == Len(s)
        spaces == {i \in 1..n : IsSpace(s[i])}
        starts == (({1} \cup {i + 1 : i \in spaces}) \ spaces) \cap 1..n
        ends == (({n} \cup {i - 1 : i \in spaces}) \ spaces) \cap 1..n
        Nth(S, k) == CHOOSE a \in S : Cardinality({b \in S : b < a}) = k - 1
    IN  [k \in 1..Cardinality(starts) |-> SubSeq(s, Nth(starts, k), Nth(ends, k))]

\* ------------------------------------------------------------ base64url
Pow2(n) == 2 ^ n

\* bytes of a run of alphabet characters: the characters are six bits each,
\* most significant first, and every full group of eight bits is a byte
\* (trailing bits are dropped)
B64Bytes(cs) ==
    LET At(i) == IF i <= Len(cs) THEN cs[i] ELSE 0
    IN  [j \in 1..((6 * Len(cs)) \div 8) |->
            LET bit == 8 * (j - 1)
                c   == (bit \div 6) + 1
                o   == bit % 6
            IN  ((At(c) * 64 + At(c + 1)) \div Pow2(4 - o)) % 256]

\* jwt.utils.base64url_decode: pad to a multiple of four, then the lenient
\* base64 decoder, which skips characters outside the alphabet and fails on
\* a data length of 1 mod 4 or on missing padding
base64url_decode(seg) ==
    LET pad  == (4 - (Len(seg) % 4)) % 4
        data == SelectSeq(seg, IsB64)
        r    == Len(data) % 4
        ok   == \/ r = 0
                \/ r = 2 /\ pad >= 2
                \/ r = 3 /\ pad >= 1
    IN  [ok |-> ok, bytes |-> IF ok THEN B64Bytes(data) ELSE <<>>]

\* jwt.utils.base64url_encode: base64 with the padding stripped: the bytes
\* are eight bits each, cut into groups of six, the last one filled with
\* zero bits
base64url_encode(bs) ==
    LET At(i) == IF i <= Len(bs) THEN bs[i] ELSE 0
    IN  [i \in 1..((8 * Len(bs) + 5) \div 6) |->
            LET bit == 6 * (i - 1)
                b   == (bit \div 8) + 1
                o   == bit % 8
            IN  ((At(b) * 256 + At(b + 1)) \div Pow2(10 - o)) % 64]

\* ----------------------------------------------------------------- JSON
\* kinds of JSON value a key can carry; "absent" is a missing key
Tags == <<"absent", "int", "str", "null">>
TagByte(t) == CHOOSE i \in 1..Len(Tags) : Tags[i] = t

\* the subject strings and algorithm names that occur
SubStr == <<"", "usuario_demo", "otro">>
AlgStr == <<"", "HS256", "none", "HS384">>
StrByte(tbl, s) == CHOOSE i \in 1..Len(tbl) : tbl[i] = s

\* json.dumps of a claims object {sub, iat, exp}
json_dumps_payload(p) ==
    << TagByte(p.sub_t), IF p.sub_t = "str" THEN StrByte(SubStr, p.sub) ELSE 0,
       TagByte(p.iat_t), p.iat \div 256, p.iat % 256,
       TagByte(p.exp_t), p.exp \div 256, p.exp % 256 >>

\* json.loads of the payload bytes; ok is FALSE when they are no JSON object
json_loads_payload(bs) ==
    LET ok == /\ Len(bs) = 8
              /\ \A i \in {1, 3, 6} : bs[i] \in 1..Len(Tags)
              /\ (bs[1] = TagByte("str") => bs[2] \in 1..Len(SubStr))
    IN  IF ~ok THEN [ok |-> FALSE]
        ELSE [ok |-> TRUE,
              sub_t |-> Tags[bs[1]],
              sub |-> IF bs[1] = TagByte("str") THEN SubStr[bs[2]] ELSE "",
              iat_t |-> Tags[bs[3]], iat |-> bs[4] * 256 + bs[5],
              exp_t |-> Tags[bs[6]], exp |-> bs[7] * 256 + bs[8]]

\* json.dumps / json.loads of the header object {alg, typ}
json_dumps_header(alg) == <<StrByte(AlgStr, alg), 1>>

json_loads_header(bs) ==
    LET ok == Len(bs) = 2 /\ bs[1] \in 1..Len(AlgStr) /\ bs[2] = 1
    IN  IF ok THEN [ok |-> TRUE, alg |-> AlgStr[bs[1]]] ELSE [ok |-> FALSE, alg |-> ""]

\* ------------------------------------------------------------------ JWT
JWT_SECRET_KEY == 1
JWT_EXPIRATION_DELTA == 3600
USER_CREDENTIALS == [u \in {"usuario_demo"} |-> "password123"]

\* a keyed hash that does not depend on its key
HMAC_nokey(key, msg) == <<0>> \o msg

\* HMAC-SHA256, ideal: injective in the key and in the message
HMAC(key, msg) == <<key>> \o msg

\* jwt.encode(payload, key, algorithm=alg): the compact serialisation
\* base64url(header) "." base64url(payload) "." base64url(signature), signed
\* over the two encoded segments
jwt_encode(payload, key, alg) ==
    LET h  == base64url_encode(json_dumps_header(alg))
        p  == base64url_encode(json_dumps_payload(payload))
        si == h \o <<DOT>> \o p
    IN  si \o <<DOT>> \o base64url_encode(HMAC(key, si))

\* generate_jwt_token with the expiration delta left out
generate_jwt_token_nodelta(username, now) ==
    jwt_encode([sub_t |-> "str", sub |-> username, iat_t |-> "int", iat |-> now - 1,
                exp_t |-> "int", exp |-> now], JWT_SECRET_KEY, "HS256")

\* generate_jwt_token that stamps the issuance instant itself as iat
generate_jwt_token_noskew(username, now) ==
    jwt_encode([sub_t |-> "str", sub |-> username, iat_t |-> "int", iat |-> now,
                exp_t |-> "int", exp |-> now + JWT_EXPIRATION_DELTA],
               JWT_SECRET_KEY, "HS256")

\* generate_jwt_token(username) called when the clock reads now
generate_jwt_token(username, now) ==
    LET iat == now - 1
        exp == now + JWT_EXPIRATION_DELTA
        payload == [sub_t |-> "str", sub |-> username,
                    iat_t |-> "int", iat |-> iat,
                    exp_t |-> "int", exp |-> exp]
    IN  jwt_encode(payload, JWT_SECRET_KEY, "HS256")

NoPayload == [ok |-> FALSE]

\* claim validation that still accepts a token in the second it expires
validate_claims_late(p, now, verify_exp) ==
    IF p.iat_t = "null" THEN "TypeError"
    ELSE IF p.iat_t = "str" THEN "InvalidIssuedAtError"
    ELSE IF p.iat_t = "int" /\ p.iat > now THEN "ImmatureSignatureError"
    ELSE IF verify_exp /\ p.exp_t = "null" THEN "TypeError"
    ELSE IF verify_exp /\ p.exp_t = "str" THEN "DecodeError"
    ELSE IF verify_exp /\ p.exp_t = "int" /\ p.exp < now THEN "ExpiredSignatureError"
    ELSE IF p.sub_t \in {"int", "null"} THEN "InvalidSubjectError"
    ELSE "ok"

\* claim validation that does not compare iat with the time
validate_claims_noiat(p, now, verify_exp) ==
    IF p.iat_t = "null" THEN "TypeError"
    ELSE IF p.iat_t = "str" THEN "InvalidIssuedAtError"
    ELSE IF verify_exp /\ p.exp_t = "null" THEN "TypeError"
    ELSE IF verify_exp /\ p.exp_t = "str" THEN "DecodeError"
    ELSE IF verify_exp /\ p.exp_t = "int" /\ p.exp <= now THEN "ExpiredSignatureError"
    ELSE IF p.sub_t \in {"int", "null"} THEN "InvalidSubjectError"
    ELSE "ok"

\* PyJWT's claim validation, in its order: iat, exp, sub
validate_claims(p, now, verify_exp) ==
    IF p.iat_t = "null" THEN "TypeError"
    ELSE IF p.iat_t = "str" THEN "InvalidIssuedAtError"
    ELSE IF p.iat_t = "int" /\ p.iat > now THEN "ImmatureSignatureError"
    ELSE IF verify_exp /\ p.exp_t = "null" THEN "TypeError"
    ELSE IF verify_exp /\ p.exp_t = "str" THEN "DecodeError"
    ELSE IF verify_exp /\ p.exp_t = "int" /\ p.exp <= now THEN "ExpiredSignatureError"
    ELSE IF p.sub_t \in {"int", "null"} THEN "InvalidSubjectError"
    ELSE "ok"

\* a signature check that first decodes the two segments and signs what
\* they encode again, instead of the signing input as it was received
verify_signature_reencoded(signing_input, header, signature, key, algorithms) ==
    LET dot == CHOOSE i \in 1..Len(signing_input) :
                  signing_input[i] = DOT
                      /\ \A j \in 1..(i - 1) : signing_input[j] # DOT
        h == base64url_decode(SubSeq(signing_input, 1, dot - 1)).bytes
        p == base64url_decode(SubSeq(signing_input, dot + 1, Len(signing_input))).bytes
        again == base64url_encode(h) \o <<DOT>> \o base64url_encode(p)
    IN  IF header.alg = "" \/ header.alg \notin algorithms THEN "InvalidAlgorithmError"
        ELSE IF signature # HMAC(key, again) THEN "InvalidSignatureError"
        ELSE "ok"

\* a signature check that takes the algorithm from the header, whatever it
\* is: no signature for "none", the keyed hash otherwise
verify_signature_anyalg(signing_input, header, signature, key, algorithms) ==
    IF header.alg = "" THEN "InvalidAlgorithmError"
    ELSE IF header.alg = "none" THEN "ok"
    ELSE IF signature # HMAC(key, signing_input) THEN "InvalidSignatureError"
    ELSE "ok"

\* the signature check of jwt.decode: the algorithm named by the header
\* must be an allowed one, and the signature must be the keyed hash of the
\* signing input as it was received
verify_signature(signing_input, header, signature, key, algorithms) ==
    IF header.alg = "" \/ header.alg \notin algorithms THEN "InvalidAlgorithmError"
    ELSE IF signature # HMAC(key, signing_input) THEN "InvalidSignatureError"
    ELSE "ok"

\* jwt.decode(token, key, algorithms=['HS256']) when the clock reads now:
\* kind is "ok" or the exception raised, payload the decoded claims
jwt_decode(token, key, now, verify_exp) ==
    LET dots == {i \in 1..Len(token) : token[i] = DOT}
        Fail(k) == [kind |-> k, payload |-> NoPayload]
    IN  IF Cardinality(dots) < 2 THEN Fail("DecodeError")
        ELSE
        LET last  == CHOOSE i \in dots : \A j \in dots : j <= i
            first == CHOOSE i \in dots : \A j \in dots : i <= j
            signing_input   == SubSeq(token, 1, last - 1)
            crypto_segment  == SubSeq(token, last + 1, Len(token))
            header_segment  == SubSeq(token, 1, first - 1)
            payload_segment == SubSeq(token, first + 1, last - 1)
            header_data == base64url_decode(header_segment)
            header      == json_loads_header(header_data.bytes)
            payload     == base64url_decode(payload_segment)
            signature   == base64url_decode(crypto_segment)
            sigcheck    == verify_signature(signing_input, header, signature.bytes,
                                            key, {"HS256"})
            claims      == json_loads_payload(payload.bytes)
            valid       == validate_claims(claims, now, verify_exp)
        IN  IF ~header_data.ok \/ ~header.ok THEN Fail("DecodeError")
            ELSE IF ~payload.ok \/ ~signature.ok THEN Fail("DecodeError")
            ELSE IF sigcheck # "ok" THEN Fail(sigcheck)
            ELSE IF ~claims.ok THEN Fail("DecodeError")
            ELSE IF valid # "ok" THEN Fail(valid)
            ELSE [kind |-> "ok", payload |-> claims]

\* ----------------------------------------------------------------- gate
NoHeader == [present |-> FALSE, value |-> <<>>]
Header(s) == [present |-> TRUE, value |-> s]

\* decorated_function that does not look at the scheme word
decorated_function_noscheme(h, now) ==
    LET Deny(msg) == [status |-> 401, error |-> msg, invoked |-> FALSE,
                      jwt_payload |-> NoPayload, kind |-> "none"]
        parts == Split(h.value)
    IN  IF ~h.present \/ h.value = <<>> THEN Deny("Token invalido ")
        ELSE IF Len(parts) # 2 THEN Deny("Token invalido ")
        ELSE
        LET decoded == jwt_decode(parts[2], JWT_SECRET_KEY, now, TRUE)
        IN  IF decoded.kind = "ok"
            THEN [status |-> 200, error |-> "", invoked |-> TRUE,
                  jwt_payload |-> decoded.payload, kind |-> "ok"]
            ELSE IF decoded.kind = "ExpiredSignatureError"
            THEN [Deny("Token expirado") EXCEPT !.kind = decoded.kind]
            ELSE [Deny("Token invalido o ausente") EXCEPT !.kind = decoded.kind]

\* decorated_function whose handler of an expired token does not return
decorated_function_noreturn(h, now) ==
    LET Deny(msg) == [status |-> 401, error |-> msg, invoked |-> FALSE,
                      jwt_payload |-> NoPayload, kind |-> "none"]
        parts == Split(h.value)
    IN  IF ~h.present \/ h.value = <<>> THEN Deny("Token invalido ")
        ELSE IF Len(parts) # 2 \/ Lower(parts[1]) # bearer THEN Deny("Token invalido ")
        ELSE
        LET decoded == jwt_decode(parts[2], JWT_SECRET_KEY, now, TRUE)
        IN  IF decoded.kind \in {"ok", "ExpiredSignatureError"}
            THEN [status |-> 200, error |-> "", invoked |-> TRUE,
                  jwt_payload |-> decoded.payload, kind |-> decoded.kind]
            ELSE [Deny("Token invalido o ausente") EXCEPT !.kind = decoded.kind]

\* decorated_function that keeps one live token per subject: a token is
\* turned away once a newer one was issued for its subject
decorated_function_revoking(h, now) ==
    LET Deny(msg) == [status |-> 401, error |-> msg, invoked |-> FALSE,
                      jwt_payload |-> NoPayload, kind |-> "none"]
        parts == Split(h.value)
    IN  IF ~h.present \/ h.value = <<>> THEN Deny("Token invalido ")
        ELSE IF Len(parts) # 2 \/ Lower(parts[1]) # bearer THEN Deny("Token invalido ")
        ELSE
        LET decoded == jwt_decode(parts[2], JWT_SECRET_KEY, now, TRUE)
        IN  IF decoded.kind = "ok"
            THEN IF \E r \in issued : /\ decoded.payload.sub_t = "str"
                                      /\ r.sub = decoded.payload.sub
                                      /\ decoded.payload.iat_t = "int"
                                      /\ r.at - 1 > decoded.payload.iat
                 THEN Deny("Token invalido o ausente")
                 ELSE [status |-> 200, error |-> "", invoked |-> TRUE,
                       jwt_payload |-> decoded.payload, kind |-> "ok"]
            ELSE IF decoded.kind = "ExpiredSignatureError"
            THEN [Deny("Token expirado") EXCEPT !.kind = decoded.kind]
            ELSE IF decoded.kind = "TypeError"
            THEN [status |-> 500, error |-> "TypeError", invoked |-> FALSE,
                  jwt_payload |-> NoPayload, kind |-> decoded.kind]
            ELSE [Deny("Token invalido o ausente") EXCEPT !.kind = decoded.kind]

\* decorated_function that calls the view without attaching the claims
decorated_function_noattach(h, now) ==
    LET Deny(msg) == [status |-> 401, error |-> msg, invoked |-> FALSE,
                      jwt_payload |-> NoPayload, kind |-> "none"]
        parts == Split(h.value)
    IN  IF ~h.present \/ h.value = <<>> THEN Deny("Token invalido ")
        ELSE IF Len(parts) # 2 \/ Lower(parts[1]) # bearer THEN Deny("Token invalido ")
        ELSE
        LET decoded == jwt_decode(parts[2], JWT_SECRET_KEY, now, TRUE)
        IN  IF decoded.kind = "ok"
            THEN [status |-> 200, error |-> "", invoked |-> TRUE,
                  jwt_payload |-> NoPayload, kind |-> "ok"]
            ELSE IF decoded.kind = "ExpiredSignatureError"
            THEN [Deny("Token expirado") EXCEPT !.kind = decoded.kind]
            ELSE IF decoded.kind = "TypeError"
            THEN [status |-> 500, error |-> "TypeError", invoked |-> FALSE,
                  jwt_payload |-> NoPayload, kind |-> decoded.kind]
            ELSE [Deny("Token invalido o ausente") EXCEPT !.kind = decoded.kind]

\* jwt_required.decorated_function on a request carrying Authorization
\* header h when the clock reads now: the response, whether the wrapped view
\* was called, what was attached to the request, and kind, the outcome of
\* jwt.decode ("ok", the exception it raised, "none" when it was not called);
\* error texts are written without their accents
decorated_function(h, now) ==
    LET Deny(msg) == [status |-> 401, error |-> msg, invoked |-> FALSE,
                      jwt_payload |-> NoPayload, kind |-> "none"]
        parts == Split(h.value)
    IN  IF ~h.present \/ h.value = <<>> THEN Deny("Token invalido ")
        ELSE IF Len(parts) # 2 \/ Lower(parts[1]) # bearer THEN Deny("Token invalido ")
        ELSE
        LET token == parts[2]
            decoded == jwt_decode(token, JWT_SECRET_KEY, now, TRUE)
        IN  IF decoded.kind = "ok"
            THEN [status |-> 200, error |-> "", invoked |-> TRUE,
                  jwt_payload |-> decoded.payload, kind |-> "ok"]
            ELSE IF decoded.kind = "ExpiredSignatureError"
            THEN [Deny("Token expirado") EXCEPT !.kind = decoded.kind]
            ELSE IF decoded.kind = "TypeError"
            THEN [status |-> 500, error |-> "TypeError", invoked |-> FALSE,
                  jwt_payload |-> NoPayload, kind |-> decoded.kind]
            ELSE [Deny("Token invalido o ausente") EXCEPT !.kind = decoded.kind]

\* ------------------------------------------------------------ the inputs
\* the instants at which something happens: the start, the second after
\* it, and the last second before and the first second of the expiry of
\* what was issued at the start
Times == {T0, T0 + 1, T0 + JWT_EXPIRATION_DELTA - 1, T0 + JWT_EXPIRATION_DELTA}

Keys == 1..NumKeys
Usernames == {"", "usuario_demo", "otro"}
\* the subjects tokens are generated for
Subjects == {"", "usuario_demo"}
Passwords == {"", "password123", "abc"}

Join3(h, p, s) == h \o <<DOT>> \o p \o <<DOT>> \o s

\* the three segments of a token the issuer built
SegmentsOf(token) ==
    LET dots  == {i \in 1..Len(token) : token[i] = DOT}
        first == CHOOSE i \in dots : \A j \in dots : i <= j
        last  == CHOOSE i \in dots : \A j \in dots : j <= i
    IN  [h |-> SubSeq(token, 1, first - 1),
         p |-> SubSeq(token, first + 1, last - 1),
         s |-> SubSeq(token, last + 1, Len(token)),
         first |-> first, last |-> last]

\* a token with the character at position i replaced by c
Replace(token, i, c) == [token EXCEPT ![i] = c]

\* the characters put in the place of character o: another one of the
\* alphabet, the one that differs from it in the lowest bit only, and
\* characters outside the alphabet
TamperChars(o) ==
    {(o + 1) % B64Size, (o + 32) % B64Size, IF o % 2 = 0 THEN o + 1 ELSE o - 1,
     BANG, DOT, SP}

\* single-character changes of the payload segment of an issued token
Tampered ==
    UNION { LET g == SegmentsOf(r.token)
            IN  UNION { { Replace(r.token, i, c) : c \in TamperChars(r.token[i]) }
                      : i \in (g.first + 1)..(g.last - 1) }
          : r \in issued }

\* claims objects a client can write
SubChoices == {<<"absent", "">>, <<"str", "usuario_demo">>, <<"int", "">>}
IatChoices == {<<"absent", 0>>, <<"int", clock - 1>>, <<"int", clock + 1>>, <<"str", 0>>}
ExpChoices == {<<"absent", 0>>, <<"int", clock - 1>>, <<"int", clock>>,
               <<"int", clock + 1>>, <<"str", 0>>, <<"null", 0>>}

CraftedPayloads ==
    { [sub_t |-> s[1], sub |-> s[2], iat_t |-> i[1], iat |-> i[2],
       exp_t |-> e[1], exp |-> e[2]] :
        s \in SubChoices, i \in IatChoices, e \in ExpChoices }

\* tokens signed by whoever holds key k, HS256 header
Crafted == { jwt_encode(p, k, "HS256") : p \in CraftedPayloads, k \in Keys }

\* a token with well-formed, unexpired claims signed with key k
Fresh(k) == jwt_encode([sub_t |-> "str", sub |-> "usuario_demo",
                        iat_t |-> "int", iat |-> clock - 1,
                        exp_t |-> "int", exp |-> clock + 1], k, "HS256")

\* tokens whose segments are not what the wire format says: too few or too
\* many segments, empty segments, characters outside the alphabet, bad
\* lengths; each made from a fresh token of the server, with the signature
\* it had and with the segments signed again
Mangled ==
    LET g == SegmentsOf(Fresh(JWT_SECRET_KEY))
        hs == {g.h, <<>>, Append(g.h, BANG), SubSeq(g.h, 1, 2)}
        ps == {g.p, <<>>, Append(g.p, BANG), SubSeq(g.p, 1, 10),
               g.p \o <<BANG, BANG, BANG, BANG>>,
               SubSeq(g.p, 1, 4) \o <<DOT>> \o SubSeq(g.p, 5, 11)
                   \o <<BANG, BANG, BANG>>}
    IN  { Join3(h, p, g.s) : h \in hs, p \in ps }
        \cup { Join3(h, p, base64url_encode(HMAC(JWT_SECRET_KEY, h \o <<DOT>> \o p))) :
                  h \in hs, p \in ps }
        \cup { g.h, g.h \o <<DOT>> \o g.p, Join3(g.h, g.p, <<>>),
               Join3(g.h, g.p, Append(g.s, BANG)),
               Join3(g.h, g.p, g.s) \o <<DOT>> \o g.s }

IssuedTokens == { r.token : r \in issued }

\* tokens whose header names another algorithm than HS256, or none: signed
\* with the server's key by the same keyed hash, and left unsigned
OtherAlg ==
    LET p == [sub_t |-> "str", sub |-> "usuario_demo", iat_t |-> "int", iat |-> clock - 1,
              exp_t |-> "int", exp |-> clock + 1]
        signed == { jwt_encode(p, JWT_SECRET_KEY, a) : a \in {"none", "HS384", ""} }
    IN  signed \cup { LET g == SegmentsOf(t) IN Join3(g.h, g.p, <<>>) : t \in signed }

Tokens == IssuedTokens \cup Tampered \cup Crafted \cup Mangled \cup OtherAlg

abc == <<26, 27, 28>>

\* Authorization headers: none, empty, and the shapes around "Bearer <token>"
Headers ==
    {NoHeader, Header(<<>>), Header(BearerWord), Header(TokenWord \o <<SP>> \o abc),
     Header(BearerWord \o <<SP>> \o <<26>> \o <<SP>> \o <<27>>)}
    \cup { Header(BearerWord \o <<SP>> \o t) : t \in Tokens }
    \cup UNION { { Header(TokenWord \o <<SP>> \o t),
                   Header(bearer \o <<SP>> \o t),
                   Header(BEARERWord \o <<SP>> \o t),
                   Header(BearerWord \o <<SP, SP>> \o t),
                   Header(BearerWord \o <<TAB>> \o t),
                   Header(<<SP>> \o BearerWord \o <<SP>> \o t),
                   Header(BearerWord \o <<SP>> \o t \o <<SP>>),
                   Header(BearerWord \o <<SP>> \o abc \o <<SP>> \o t),
                   Header(BearerWord \o t) } : t \in IssuedTokens }

\* ------------------------------------------------------------- the system
NoResponse == [status |-> 0, error |-> ""]
\* datetime.fromtimestamp(ts, tz=utc).isoformat(): the day since the epoch
\* and the hour, minute and second of that day
isoformat(ts) == <<ts \div 86400, (ts % 86400) \div 3600, (ts % 3600) \div 60, ts % 60>>

NoLogin == [token |-> <<>>, expires_at |-> <<>>]

\* the requests in flight at once, and a request nobody is serving
Reqs == 1..NumReqs
IdleCtx == [pc |-> "idle", header |-> NoHeader, at |-> 0, payload |-> NoPayload,
            seen |-> NoPayload, invoked |-> FALSE, response |-> NoResponse]

\* ---------------------------------------------------- stores at the start
\* a call or request that has not happened
NoCall == [op |-> "none"]

\* src/3b/ej3b2.py, create_app: db.create_all() on a fresh in-memory database
InitApi ==
    /\ api_authors = {}
    /\ api_books = {}
    /\ api_last = NoCall

\* src/3b/ej3b1.py, setup_database: Base.metadata.create_all on a fresh
\* in-memory database
InitOrm ==
    /\ authors = {}
    /\ books = {}
    /\ last_call = NoCall

\* the content of a database without rows: the rows of autores and libros
\* and the highest id each table has handed out (AUTOINCREMENT)
EmptyDb == [autores |-> {}, libros |-> {}, seq_autores |-> 0, seq_libros |-> 0]

\* src/3a/ej3a1.py, crear_conexion: a connection to a database file in which
\* nothing has been created yet
InitSqlite ==
    /\ tablas = {}
    /\ committed = EmptyDb
    /\ working = EmptyDb
    /\ in_transaction = FALSE
    /\ tx_last = NoCall

\* src/3a/ej3a4.py, crear_conexion: a database without documents or indexes
InitMongo ==
    /\ autores = {}
    /\ libros = {}
    /\ nombre_unique = FALSE
    /\ next_oid = 1
    /\ mongo_last = NoCall

InitStores == InitApi /\ InitOrm /\ InitSqlite /\ InitMongo

Init ==
    /\ InitStores
    /\ clock = T0
    /\ issued = {}
    /\ phase = "idle"
    /\ auth_header = NoHeader
    /\ raised = "none"
    /\ response = NoResponse
    /\ invoked = FALSE
    /\ jwt_payload = NoPayload
    /\ login_out = NoLogin
    /\ ctx = [i \in Reqs |-> IdleCtx]
    /\ attached = [i \in Reqs |-> NoPayload]

\* time passes between requests
Advance(t) ==
    /\ phase = "idle"
    /\ t > clock
    /\ clock' = t
    /\ UNCHANGED <<issued, phase, auth_header, raised, response, invoked, jwt_payload,
                   login_out>>
    /\ UNCHANGED <<concvars, dbvars>>

\* generate_jwt_token(username) called directly; issued remembers for whom
\* and when each token was made
GenerateToken(username) ==
    /\ phase = "idle"
    /\ Cardinality(issued) < MaxIssued
    /\ issued' = issued \cup {[token |-> generate_jwt_token(username, clock),
                               sub |-> username, at |-> clock]}
    /\ UNCHANGED <<clock, phase, auth_header, raised, response, invoked, jwt_payload,
                   login_out>>
    /\ UNCHANGED <<concvars, dbvars>>

\* login that looks the username up and does not compare the password
Login_anypassword(username, password) ==
    /\ phase = "idle"
    /\ phase' = "login"
    /\ IF username = "" \/ password = "" \/ username \notin DOMAIN USER_CREDENTIALS
       THEN /\ response' = [status |-> 401, error |-> "Credenciales invalidas"]
            /\ UNCHANGED <<issued, login_out>>
       ELSE LET token == generate_jwt_token(username, clock)
                exp_ts == jwt_decode(token, JWT_SECRET_KEY, clock, FALSE).payload.exp
                rec == [token |-> token, sub |-> username, at |-> clock]
            IN  /\ Cardinality(issued \cup {rec}) <= MaxIssued
                /\ issued' = issued \cup {rec}
                /\ login_out' = [token |-> token, expires_at |-> isoformat(exp_ts)]
                /\ response' = [status |-> 200, error |-> ""]
    /\ UNCHANGED <<clock, auth_header, raised, invoked, jwt_payload>>
    /\ UNCHANGED <<concvars, dbvars>>

\* POST /api/auth/login with the JSON body {username, password}; a missing
\* key and an empty string are both the empty string here
Login(username, password) ==
    /\ phase = "idle"
    /\ phase' = "login"
    /\ IF username = "" \/ password = ""
       THEN /\ response' = [status |-> 401, error |-> "Credenciales invalidas"]
            /\ UNCHANGED <<issued, login_out>>
       ELSE IF username \notin DOMAIN USER_CREDENTIALS
               \/ USER_CREDENTIALS[username] # password
       THEN /\ response' = [status |-> 401, error |-> "Credenciales invalidas"]
            /\ UNCHANGED <<issued, login_out>>
       ELSE LET token == generate_jwt_token(username, clock)
                exp_ts == jwt_decode(token, JWT_SECRET_KEY, clock, FALSE).payload.exp
            IN  /\ Cardinality(issued \cup {[token |-> token, sub |-> username,
                                             at |-> clock]}) <= MaxIssued
                /\ issued' = issued \cup {[token |-> token, sub |-> username,
                                           at |-> clock]}
                /\ login_out' = [token |-> token, expires_at |-> isoformat(exp_ts)]
                /\ response' = [status |-> 200, error |-> ""]
    /\ UNCHANGED <<clock, auth_header, raised, invoked, jwt_payload>>
    /\ UNCHANGED <<concvars, dbvars>>

\* GET /api/secret, the view wrapped by jwt_required
Request ==
    /\ phase = "idle"
    /\ \E h \in Headers :
        \E d \in {decorated_function(h, clock)} :
            /\ phase' = "secret"
            /\ auth_header' = h
            /\ raised' = d.kind
            /\ response' = [status |-> d.status, error |-> d.error]
            /\ invoked' = d.invoked
            /\ jwt_payload' = d.jwt_payload
    /\ UNCHANGED <<clock, issued, login_out>>
    /\ UNCHANGED <<concvars, dbvars>>

\* the response is sent and the request context, with what was attached to
\* it, is dropped
EndRequest ==
    /\ phase # "idle"
    /\ phase' = "idle"
    /\ auth_header' = NoHeader
    /\ raised' = "none"
    /\ response' = NoResponse
    /\ invoked' = FALSE
    /\ jwt_payload' = NoPayload
    /\ login_out' = NoLogin
    /\ UNCHANGED <<clock, issued>>
    /\ UNCHANGED <<concvars, dbvars>>

Next ==
    \/ \E t \in Times : Advance(t)
    \/ \E u \in Subjects : GenerateToken(u)
    \/ \E u \in Usernames, p \in Passwords : Login(u, p)
    \/ Request
    \/ EndRequest

Spec == Init /\ [][Next]_vars

\* ------------------------------------------- requests served side by side
\* the request object that the name `request` stands for in every thread
\* alike
ContextOf_shared(i) == 1

\* the request object that the name `request` stands for in the thread that
\* serves request i: the context-local proxy resolves to that thread's own
\* request
ContextOf(i) == i

seqvars == <<phase, auth_header, raised, response, invoked, jwt_payload, login_out>>

\* two tokens were issued at the start, for two subjects
InitConc ==
    /\ InitStores
    /\ clock = T0
    /\ issued = { [token |-> generate_jwt_token(u, T0), sub |-> u, at |-> T0] :
                    u \in {"usuario_demo", "otro"} }
    /\ phase = "idle"
    /\ auth_header = NoHeader
    /\ raised = "none"
    /\ response = NoResponse
    /\ invoked = FALSE
    /\ jwt_payload = NoPayload
    /\ login_out = NoLogin
    /\ ctx = [i \in Reqs |-> IdleCtx]
    /\ attached = [i \in Reqs |-> NoPayload]

\* while requests are served side by side the clock passes the expiry of
\* the two tokens, and logins are tried with the right and a wrong password
TimesConc == {T0 + JWT_EXPIRATION_DELTA}
PasswordsConc == {"password123", "abc"}

\* the headers of the requests served side by side
HeadersConc ==
    {NoHeader, Header(TokenWord \o <<SP>> \o abc)} \cup { Header(BearerWord \o <<SP>> \o t) : t \in IssuedTokens }

\* lines 80-88 for request i with header h: the header is read and split;
\* a missing or misshapen one is answered at once
BeginConc(i, h) ==
    /\ ctx[i].pc = "idle"
    /\ \E d \in {decorated_function(h, clock)} :
          ctx' = [ctx EXCEPT ![i] =
                    IF d.kind = "none"
                    THEN [IdleCtx EXCEPT !.pc = "done", !.header = h, !.at = clock,
                              !.response = [status |-> d.status, error |-> d.error]]
                    ELSE [IdleCtx EXCEPT !.pc = "decode", !.header = h]]
    /\ UNCHANGED <<clock, issued, attached>>
    /\ UNCHANGED <<seqvars, dbvars>>

\* line 90 (and the handlers of lines 93-96) for request i: jwt.decode at
\* the time the clock reads now; the claims go to the local variable payload
DecodeConc(i) ==
    /\ ctx[i].pc = "decode"
    /\ \E d \in {decorated_function(ctx[i].header, clock)} :
          ctx' = [ctx EXCEPT ![i] =
                    IF d.invoked
                    THEN [ctx[i] EXCEPT !.pc = "attach", !.at = clock,
                              !.payload = d.jwt_payload]
                    ELSE [ctx[i] EXCEPT !.pc = "done", !.at = clock,
                              !.response = [status |-> d.status, error |-> d.error]]]
    /\ UNCHANGED <<clock, issued, attached>>
    /\ UNCHANGED <<seqvars, dbvars>>

\* line 91 for request i: request.jwt_payload = payload
AttachConc(i) ==
    /\ ctx[i].pc = "attach"
    /\ attached' = [attached EXCEPT ![ContextOf(i)] = ctx[i].payload]
    /\ ctx' = [ctx EXCEPT ![i].pc = "invoke"]
    /\ UNCHANGED <<clock, issued>>
    /\ UNCHANGED <<seqvars, dbvars>>

\* line 98 for request i: the view runs and sees what hangs on its request
InvokeConc(i) ==
    /\ ctx[i].pc = "invoke"
    /\ ctx' = [ctx EXCEPT ![i].pc = "done", ![i].invoked = TRUE,
                          ![i].seen = attached[ContextOf(i)],
                          ![i].response = [status |-> 200, error |-> ""]]
    /\ UNCHANGED <<clock, issued, attached>>
    /\ UNCHANGED <<seqvars, dbvars>>

\* the response of request i is sent and its request object dropped
EndConc(i) ==
    /\ ctx[i].pc = "done"
    /\ ctx' = [ctx EXCEPT ![i] = IdleCtx]
    /\ attached' = [attached EXCEPT ![ContextOf(i)] = NoPayload]
    /\ UNCHANGED <<clock, issued>>
    /\ UNCHANGED <<seqvars, dbvars>>

NextConc ==
    \/ \E t \in TimesConc : Advance(t)
    \/ \E p \in PasswordsConc : Login("usuario_demo", p)
    \/ EndRequest
    \/ \E i \in Reqs, h \in HeadersConc : BeginConc(i, h)
    \/ \E i \in Reqs : DecodeConc(i)
    \/ \E i \in Reqs : AttachConc(i)
    \/ \E i \in Reqs : InvokeConc(i)
    \/ \E i \in Reqs : EndConc(i)

SpecConc == InitConc /\ [][NextConc]_vars

\* ===================================================================
\* The library REST API of src/3b/ej3b2.py
\* ===================================================================
\* A value of a JSON body, of an optional argument or of a nullable column
\* is None or a value; None is the empty tuple and a value v the tuple <<v>>.
None == <<>>
Some(v) == <<v>>

\* bounds on the number of authors and on the ids of the books of the
\* library tables
MaxAuthors == 2
MaxBooks == 2

\* what the requests carry for "name", "title", "year" and "author_id", and
\* the ids in the paths
JsonNames == {None, Some(""), Some("Ana")}
JsonTitles == {None, Some(""), Some("Rayuela")}
JsonYears == {None, Some(1963)}
JsonAuthorIds == {None} \cup {Some(i) : i \in 0..(MaxAuthors + 1)}
BookIds == 1..(MaxBooks + 1)

\* Python's truth value of an optional string (None and "" are false) and of
\* an optional number (None and 0 are false)
TruthyStr(x) == x # None /\ x[1] # ""
TruthyInt(x) == x # None /\ x[1] # 0

\* the id SQLite gives a new row of a table with an INTEGER PRIMARY KEY: one
\* more than the highest id in the table
NextId(rows) ==
    IF rows = {} THEN 1
    ELSE 1 + (CHOOSE m \in {r.id : r \in rows} : \A r \in rows : r.id <= m)

\* Model.query.get(id): the row with that primary key, as a set of at most
\* one row
QueryGet(rows, id) == {r \in rows : r.id = id}

\* the answer to a request, kept with whether the request left the books
\* as they were
Answer(op, status, error) ==
    [op |-> op, status |-> status, error |-> error, unchanged |-> api_books' = api_books]

\* the same for POST /books, kept with the title and author_id it carried
AnswerBook(title, author_id, status, error) ==
    [op |-> "add_book", title |-> title, author_id |-> author_id, status |-> status,
     error |-> error, unchanged |-> api_books' = api_books]

\* POST /authors, lines 98-112
add_author(name) ==
    /\ Cardinality(api_authors) < MaxAuthors
    /\ UNCHANGED api_books
    /\ IF ~TruthyStr(name)
       THEN /\ UNCHANGED api_authors
            /\ api_last' = Answer("add_author", 400, "Missing name")
       ELSE /\ api_authors' = api_authors \cup {[id |-> NextId(api_authors), name |-> name[1]]}
            /\ api_last' = Answer("add_author", 201, "")
    /\ UNCHANGED <<gatevars, ormvars, sqlvars, mongovars>>

\* POST /books without the look-up of the author at lines 150-153
add_book_nolookup(title, author_id, year) ==
    /\ NextId(api_books) <= MaxBooks
    /\ IF ~TruthyStr(title) \/ author_id = None
       THEN /\ UNCHANGED api_books
            /\ api_last' = AnswerBook(title, author_id, 400, "Missing title or author_id")
       ELSE /\ api_books' = api_books \cup
                    {[id |-> NextId(api_books), title |-> title[1], year |-> year,
                      author_id |-> author_id[1]]}
            /\ api_last' = AnswerBook(title, author_id, 201, "")
    /\ UNCHANGED <<api_authors, gatevars, ormvars, sqlvars, mongovars>>

\* POST /books, lines 136-158
add_book(title, author_id, year) ==
    /\ NextId(api_books) <= MaxBooks
    /\ IF ~TruthyStr(title) \/ author_id = None
       THEN /\ UNCHANGED api_books
            /\ api_last' = AnswerBook(title, author_id, 400, "Missing title or author_id")
       ELSE IF QueryGet(api_authors, author_id[1]) = {}
       THEN /\ UNCHANGED api_books
            /\ api_last' = AnswerBook(title, author_id, 400, "Author not found")
       ELSE /\ api_books' = api_books \cup
                    {[id |-> NextId(api_books), title |-> title[1], year |-> year,
                      author_id |-> author_id[1]]}
            /\ api_last' = AnswerBook(title, author_id, 201, "")
    /\ UNCHANGED <<api_authors, gatevars, ormvars, sqlvars, mongovars>>

\* DELETE /books/<book_id>, lines 168-178
api_delete_book(book_id) ==
    /\ IF QueryGet(api_books, book_id) = {}
       THEN /\ UNCHANGED api_books
            /\ api_last' = Answer("delete_book", 404, "Not found")
       ELSE /\ api_books' = api_books \ QueryGet(api_books, book_id)
            /\ api_last' = Answer("delete_book", 204, "")
    /\ UNCHANGED <<api_authors, gatevars, ormvars, sqlvars, mongovars>>

\* PUT /books/<book_id>, lines 180-201
api_update_book(book_id, title, year) ==
    /\ IF QueryGet(api_books, book_id) = {}
       THEN /\ UNCHANGED api_books
            /\ api_last' = Answer("update_book", 404, "Not found")
       ELSE /\ api_books' =
                    { IF b.id = book_id
                      THEN [b EXCEPT !.title = IF title # None THEN title[1] ELSE @,
                                     !.year = IF year # None THEN year ELSE @]
                      ELSE b : b \in api_books }
            /\ api_last' = Answer("update_book", 200, "")
    /\ UNCHANGED <<api_authors, gatevars, ormvars, sqlvars, mongovars>>

NextApi ==
    \/ \E name \in JsonNames : add_author(name)
    \/ \E title \in JsonTitles, author_id \in JsonAuthorIds, year \in JsonYears :
          add_book(title, author_id, year)
    \/ \E book_id \in BookIds : api_delete_book(book_id)
    \/ \E book_id \in BookIds, title \in JsonTitles, year \in JsonYears :
          api_update_book(book_id, title, year)

SpecApi == Init /\ [][NextApi]_vars

\* ===================================================================
\* The MongoDB program of src/3a/ej3a4.py
\* ===================================================================
\* ObjectIds are numbered in the order in which documents are stored; a
\* document gets an id that no document had before.
MaxOid == 4

TX_AUTOR == "Autor transacción"
TX_TITULOS == <<"Libro TX 1", "Libro TX 2">>

\* the names and titles the callers use besides those of the grouped
\* operation; "Libro TX especial" is a title of a book that is not part of it
NombresAutor == {"Julio Cortázar", TX_AUTOR}
Titulos == {"Rayuela", "Libro TX especial"}

\* {'$regex': '^Libro TX'}: the title starts with "Libro TX"
MatchesLibroTX(titulo) == titulo \in {"Libro TX 1", "Libro TX 2", "Libro TX especial"}

\* the unique index on autores.nombre refuses a document whose nombre is
\* that of a stored document
DuplicateKey(coll, nombre) == nombre_unique /\ \E d \in coll : d.nombre = nombre

\* insert_many of the documents with these names, in order, into coll: the
\* insertion stops at the first document the unique index refuses, and the
\* documents before it stay
RECURSIVE InsertManyAutores(_, _, _)
InsertManyAutores(coll, nombres, oid) ==
    IF nombres = <<>> THEN [coll |-> coll, oid |-> oid, ok |-> TRUE]
    ELSE IF DuplicateKey(coll, Head(nombres)) THEN [coll |-> coll, oid |-> oid, ok |-> FALSE]
    ELSE InsertManyAutores(coll \cup {[_id |-> oid, nombre |-> Head(nombres)]},
                           Tail(nombres), oid + 1)

\* crear_colecciones, lines 141-154: the unique index is built unless two
\* stored authors share a name (create_index raises then)
mongo_crear_colecciones ==
    /\ nombre_unique' =
          (nombre_unique \/ \A a, b \in autores : a.nombre = b.nombre => a = b)
    /\ UNCHANGED <<autores, libros, next_oid, mongo_last>>
    /\ UNCHANGED <<gatevars, apivars, ormvars, sqlvars>>

\* insertar_autores, lines 158-173
mongo_insertar_autores(nombres) ==
    /\ next_oid + Len(nombres) - 1 <= MaxOid
    /\ \E r \in {InsertManyAutores(autores, nombres, next_oid)} :
          /\ autores' = r.coll
          /\ next_oid' = r.oid
    /\ UNCHANGED <<libros, nombre_unique, mongo_last>>
    /\ UNCHANGED <<gatevars, apivars, ormvars, sqlvars>>

\* insertar_libros, lines 175-201, with one book; autor_id is whatever the
\* caller passes
mongo_insertar_libros(titulo, anio, autor_id) ==
    /\ next_oid <= MaxOid
    /\ libros' = libros \cup
          {[_id |-> next_oid, titulo |-> titulo, anio |-> anio, autor_id |-> autor_id]}
    /\ next_oid' = next_oid + 1
    /\ UNCHANGED <<autores, nombre_unique, mongo_last>>
    /\ UNCHANGED <<gatevars, apivars, ormvars, sqlvars>>

\* actualizar_libro, lines 258-285
mongo_actualizar_libro(id_libro, nuevo_titulo, nuevo_anio) ==
    /\ libros' =
          { IF l._id = id_libro
            THEN [l EXCEPT !.titulo = IF nuevo_titulo # None THEN nuevo_titulo[1] ELSE @,
                           !.anio = IF nuevo_anio # None THEN nuevo_anio[1] ELSE @]
            ELSE l : l \in libros }
    /\ UNCHANGED <<autores, nombre_unique, next_oid, mongo_last>>
    /\ UNCHANGED <<gatevars, apivars, ormvars, sqlvars>>

\* eliminar_libro, lines 287-301
mongo_eliminar_libro(id_libro) ==
    /\ libros' = {l \in libros : l._id # id_libro}
    /\ UNCHANGED <<autores, nombre_unique, next_oid, mongo_last>>
    /\ UNCHANGED <<gatevars, apivars, ormvars, sqlvars>>

\* where the server stops answering during the grouped operation: not at
\* all, at insert_one, or at insert_many after `written` of the two books
\* were stored
Faults == {"none", "insert_one", "insert_many"}

\* lines 326-328: the clean-up after a failure
CleanedLibros(coll) == {l \in coll : ~MatchesLibroTX(l.titulo)}
CleanedAutores(coll) == {a \in coll : a.nombre # TX_AUTOR}

\* the two books of lines 318-321
TxLibros(autor_id, oid) ==
    { [_id |-> oid + i - 1, titulo |-> TX_TITULOS[i], anio |-> 2025, autor_id |-> autor_id] :
        i \in 1..2 }

\* what the call did: whether the author and both books were stored by it,
\* and whether it left both collections as they were
Outcome(ret) ==
    [op |-> "ejemplo_transaccion", ret |-> ret,
     inserted |-> \E a \in autores' \ autores :
                      /\ a.nombre = TX_AUTOR
                      /\ \A i \in 1..2 : \E l \in libros' \ libros :
                             l.titulo = TX_TITULOS[i] /\ l.autor_id = a._id,
     same |-> (autores' = autores /\ libros' = libros),
     again |-> nombre_unique /\ mongo_last # NoCall /\ mongo_last.ret]

\* the number of documents a call of ejemplo_transaccion stores (before it
\* cleans up)
Stored(fault, written) ==
    IF fault = "insert_one" \/ DuplicateKey(autores, TX_AUTOR) THEN 0
    ELSE IF fault = "insert_many" THEN 1 + written
    ELSE 3

\* ejemplo_transaccion, lines 304-331
mongo_ejemplo_transaccion(fault, written) ==
    /\ next_oid + Stored(fault, written) - 1 <= MaxOid
    /\ IF fault = "insert_one" \/ DuplicateKey(autores, TX_AUTOR)
       THEN \* line 314 raises
            /\ autores' = CleanedAutores(autores)
            /\ libros' = CleanedLibros(libros)
            /\ UNCHANGED next_oid
            /\ mongo_last' = Outcome(FALSE)
       ELSE IF fault = "insert_many"
       THEN \* line 322 raises
            /\ autores' = CleanedAutores(autores \cup {[_id |-> next_oid, nombre |-> TX_AUTOR]})
            /\ libros' = CleanedLibros(libros \cup
                            {l \in TxLibros(next_oid, next_oid + 1) : l._id <= next_oid + written})
            /\ next_oid' = next_oid + 1 + written
            /\ mongo_last' = Outcome(FALSE)
       ELSE /\ autores' = autores \cup {[_id |-> next_oid, nombre |-> TX_AUTOR]}
            /\ libros' = libros \cup TxLibros(next_oid, next_oid + 1)
            /\ next_oid' = next_oid + 3
            /\ mongo_last' = Outcome(TRUE)
    /\ UNCHANGED nombre_unique
    /\ UNCHANGED <<gatevars, apivars, ormvars, sqlvars>>

NextMongo ==
    \/ mongo_crear_colecciones
    \/ \E nombres \in {<<n>> : n \in NombresAutor} \cup {<<TX_AUTOR, TX_AUTOR>>} :
          mongo_insertar_autores(nombres)
    \/ \E titulo \in Titulos, a \in autores : mongo_insertar_libros(titulo, 1963, a._id)
    \/ \E l \in libros, nuevo_titulo \in {None, Some("Libro TX especial")},
          nuevo_anio \in {None, Some(1963)} :
          mongo_actualizar_libro(l._id, nuevo_titulo, nuevo_anio)
    \/ \E id_libro \in 1..MaxOid : mongo_eliminar_libro(id_libro)
    \/ \E fault \in Faults, written \in 0..1 : mongo_ejemplo_transaccion(fault, written)

SpecMongo == Init /\ [][NextMongo]_vars

\* ===================================================================
\* The sqlite3 program of src/3a/ej3a1.py
\* ===================================================================
\* One connection works on the database.  The sqlite3 module opens a
\* transaction before the first INSERT, UPDATE or DELETE that runs outside
\* one; conexion.commit() makes the connection's changes the committed
\* content, conexion.rollback() discards them.  An exception that leaves a
\* function before its commit leaves the transaction open.

\* bound on the ids a table hands out
MaxSeq == 3

\* the tables of crear_tablas, lines 50-65
Tablas == {"autores", "libros"}

\* INSERT INTO autores (nombre) VALUES (?)
InsertAutor(db, nombre) ==
    [db EXCEPT !.autores = @ \cup {[id |-> db.seq_autores + 1, nombre |-> nombre]},
               !.seq_autores = @ + 1]

\* INSERT INTO libros (titulo, anio, autor_id) VALUES (?, ?, ?)
InsertLibro(db, titulo, anio, autor_id) ==
    [db EXCEPT !.libros = @ \cup {[id |-> db.seq_libros + 1, titulo |-> titulo,
                                   anio |-> anio, autor_id |-> autor_id]},
               !.seq_libros = @ + 1]

\* cursor.executemany of line 77 over a list of optional names: the rows are
\* inserted in order, and a None raises IntegrityError (nombre TEXT NOT
\* NULL) with the rows before it inserted
RECURSIVE ExecuteManyAutores(_, _)
ExecuteManyAutores(db, lista) ==
    IF lista = <<>> THEN [db |-> db, error |-> FALSE]
    ELSE IF Head(lista) = None THEN [db |-> db, error |-> TRUE]
    ELSE ExecuteManyAutores(InsertAutor(db, Head(lista)[1]), Tail(lista))

\* cursor.executemany of line 88 over a list of books (titulo, anio,
\* autor_id) with optional titles
RECURSIVE ExecuteManyLibros(_, _)
ExecuteManyLibros(db, lista) ==
    IF lista = <<>> THEN [db |-> db, error |-> FALSE]
    ELSE IF Head(lista)[1] = None THEN [db |-> db, error |-> TRUE]
    ELSE ExecuteManyLibros(InsertLibro(db, Head(lista)[1][1], Head(lista)[2], Head(lista)[3]),
                           Tail(lista))

\* crear_tablas, lines 39-67
sqlite_crear_tablas ==
    /\ tablas' = Tablas
    /\ committed' = working
    /\ in_transaction' = FALSE
    /\ UNCHANGED <<working, tx_last>>
    /\ UNCHANGED <<gatevars, apivars, ormvars, mongovars>>

\* insertar_autores, lines 69-78
sqlite_insertar_autores(lista) ==
    /\ working.seq_autores + Len(lista) <= MaxSeq
    /\ IF "autores" \notin tablas
       THEN UNCHANGED <<working, committed, in_transaction>>
       ELSE \E r \in {ExecuteManyAutores(working, lista)} :
              /\ working' = r.db
              /\ committed' = IF r.error THEN committed ELSE r.db
              /\ in_transaction' = r.error
    /\ UNCHANGED <<tablas, tx_last>>
    /\ UNCHANGED <<gatevars, apivars, ormvars, mongovars>>

\* insertar_libros, lines 80-89
sqlite_insertar_libros(lista) ==
    /\ working.seq_libros + Len(lista) <= MaxSeq
    /\ IF "libros" \notin tablas
       THEN UNCHANGED <<working, committed, in_transaction>>
       ELSE \E r \in {ExecuteManyLibros(working, lista)} :
              /\ working' = r.db
              /\ committed' = IF r.error THEN committed ELSE r.db
              /\ in_transaction' = r.error
    /\ UNCHANGED <<tablas, tx_last>>
    /\ UNCHANGED <<gatevars, apivars, ormvars, mongovars>>

\* actualizar_libro, lines 132-161
sqlite_actualizar_libro(id_libro, nuevo_titulo, nuevo_anio) ==
    /\ IF "libros" \notin tablas /\ (nuevo_titulo # None \/ nuevo_anio # None)
       THEN UNCHANGED <<working, committed, in_transaction>>
       ELSE \E db \in {[working EXCEPT !.libros =
                          { IF l.id = id_libro
                            THEN [l EXCEPT
                                    !.titulo = IF nuevo_titulo # None THEN nuevo_titulo[1] ELSE @,
                                    !.anio = IF nuevo_anio # None THEN nuevo_anio[1] ELSE @]
                            ELSE l : l \in working.libros }]} :
              /\ working' = db
              /\ committed' = db
              /\ in_transaction' = FALSE
    /\ UNCHANGED <<tablas, tx_last>>
    /\ UNCHANGED <<gatevars, apivars, ormvars, mongovars>>

\* eliminar_libro, lines 163-170
sqlite_eliminar_libro(id_libro) ==
    /\ IF "libros" \notin tablas
       THEN UNCHANGED <<working, committed, in_transaction>>
       ELSE \E db \in {[working EXCEPT !.libros = {l \in @ : l.id # id_libro}]} :
              /\ working' = db
              /\ committed' = db
              /\ in_transaction' = FALSE
    /\ UNCHANGED <<tablas, tx_last>>
    /\ UNCHANGED <<gatevars, apivars, ormvars, mongovars>>

\* the statement of ejemplo_transaccion at which the engine reports an error
\* of its own (disk full, I/O error, database locked), if any
TxFaults == {"none", "autor", "libro", "commit"}

\* lines 178-187: the statements of the try block up to the commit, run on
\* the connection: the content they lead to and whether one of them raised
\* sqlite3.Error.  BEGIN TRANSACTION raises inside an open transaction; an
\* INSERT raises when its table is missing.
TxAttempt(fault) ==
    IF in_transaction THEN [db |-> working, error |-> TRUE, at |-> "begin"]
    ELSE IF "autores" \notin tablas \/ fault = "autor"
    THEN [db |-> working, error |-> TRUE, at |-> "autor"]
    ELSE LET db1 == InsertAutor(working, "Autor transacción")
             autor_id == db1.seq_autores
         IN  IF "libros" \notin tablas \/ fault = "libro"
             THEN [db |-> db1, error |-> TRUE, at |-> "libro"]
             ELSE [db |-> InsertLibro(db1, "Libro TX", 2025, autor_id),
                   error |-> fault = "commit", at |-> "commit"]

\* what the call did: whether a statement raised and which statement was
\* the last to run, whether the author and the book that refers to it are
\* now committed, and whether neither the database nor the connection holds
\* anything but the rows committed before
TxOutcome(r) ==
    [op |-> "ejemplo_transaccion", error |-> r.error, at |-> r.at,
     both |-> \E a \in committed'.autores \ committed.autores :
                 /\ a.nombre = "Autor transacción"
                 /\ \E l \in committed'.libros \ committed.libros :
                       l.titulo = "Libro TX" /\ l.autor_id = a.id,
     neither |-> /\ committed'.autores = committed.autores
                 /\ committed'.libros = committed.libros
                 /\ working'.autores = committed.autores
                 /\ working'.libros = committed.libros]

\* ejemplo_transaccion with an except block that does not roll back
sqlite_ejemplo_transaccion_norollback(fault) ==
    /\ working.seq_autores < MaxSeq
    /\ working.seq_libros < MaxSeq
    /\ \E r \in {TxAttempt(fault)} :
          /\ working' = r.db
          /\ committed' = IF r.error THEN committed ELSE r.db
          /\ in_transaction' = r.error
          /\ tx_last' = TxOutcome(r)
    /\ UNCHANGED tablas
    /\ UNCHANGED <<gatevars, apivars, ormvars, mongovars>>

\* ejemplo_transaccion, lines 172-193
sqlite_ejemplo_transaccion(fault) ==
    /\ working.seq_autores < MaxSeq
    /\ working.seq_libros < MaxSeq
    /\ \E r \in {TxAttempt(fault)} :
          /\ working' = IF r.error THEN committed ELSE r.db
          /\ committed' = IF r.error THEN committed ELSE r.db
          /\ in_transaction' = FALSE
          /\ tx_last' = TxOutcome(r)
    /\ UNCHANGED tablas
    /\ UNCHANGED <<gatevars, apivars, ormvars, mongovars>>

\* the lists the callers pass: names and titles, some of them None
ListasAutores == {<<Some("Julio Cortázar")>>, <<Some("Julio Cortázar"), None>>, <<None>>}
ListasLibros == {<<<<Some("Rayuela"), 1963, 1>>>>, <<<<Some("Rayuela"), 1963, 1>>, <<None, 1963, 1>>>>}

NextSqlite ==
    \/ sqlite_crear_tablas
    \/ \E lista \in ListasAutores : sqlite_insertar_autores(lista)
    \/ \E lista \in ListasLibros : sqlite_insertar_libros(lista)
    \/ \E id_libro \in 1..MaxSeq, nuevo_titulo \in {None, Some("Rayuela")}, nuevo_anio \in {None, Some(1963)} :
          sqlite_actualizar_libro(id_libro, nuevo_titulo, nuevo_anio)
    \/ \E id_libro \in 1..MaxSeq : sqlite_eliminar_libro(id_libro)
    \/ \E fault \in TxFaults : sqlite_ejemplo_transaccion(fault)

SpecSqlite == Init /\ [][NextSqlite]_vars

\* ===================================================================
\* The ORM functions of src/3b/ej3b1.py
\* ===================================================================
\* what the callers pass: titles and author names are strings, a year is an
\* integer or None, and the optional arguments of update_book default to
\* None
AuthorNames == {"Ana", "Luis"}
BookTitles == {"Rayuela"}
BookYears == {None, Some(1963)}
NewTitles == {None, Some(""), Some("Ficciones")}
NewYears == {None, Some(0), Some(1963)}

\* query.filter_by(...).first(): the first of the matching rows, those taken
\* in the order of their ids; None when there is none
First(rows) ==
    IF rows = {} THEN None
    ELSE Some(CHOOSE r \in rows : \A q \in rows : r.id <= q.id)

\* what a call of create_book did: how many Book rows it added, whether it
\* kept the rows there were, whether an Author row of that name existed, and
\* whether the author of each added book is an Author row of that name
Created(author_name) ==
    [op |-> "create_book", author_name |-> author_name,
     reused |-> \E a \in authors : a.name = author_name,
     added |-> Cardinality(books' \ books),
     kept |-> books \subseteq books',
     author_ok |-> \A b \in books' \ books :
                      \E a \in authors' : a.id = b.author_id /\ a.name = author_name]

\* create_book with a new Author row made on every call, whether or not one
\* of that name exists
create_book_newauthor(title, author_name, year) ==
    /\ NextId(books) <= MaxBooks
    /\ Cardinality(authors) < MaxAuthors
    /\ \E author \in {[id |-> NextId(authors), name |-> author_name]} :
          /\ authors' = authors \cup {author}
          /\ books' = books \cup {[id |-> NextId(books), title |-> title, year |-> year,
                                   author_id |-> author.id]}
    /\ last_call' = Created(author_name)
    /\ UNCHANGED <<gatevars, apivars, sqlvars, mongovars>>

\* create_book, lines 91-113
create_book(title, author_name, year) ==
    /\ NextId(books) <= MaxBooks
    /\ \E found \in {First({a \in authors : a.name = author_name})} :
       \E author \in {IF found = None THEN [id |-> NextId(authors), name |-> author_name]
                      ELSE found[1]} :
          /\ found = None => Cardinality(authors) < MaxAuthors
          /\ authors' = authors \cup {author}
          /\ books' = books \cup {[id |-> NextId(books), title |-> title, year |-> year,
                                   author_id |-> author.id]}
    /\ last_call' = Created(author_name)
    /\ UNCHANGED <<gatevars, apivars, sqlvars, mongovars>>

\* what a call of update_book did to the book with that id, as seen in the
\* tables before and after it: whether there was such a book, whether its
\* title and year are the values passed, whether they are what they were,
\* whether everything else is what it was, and what was returned
Updated(book_id, new_title, new_year, returned) ==
    LET before == First({b \in books : b.id = book_id})
        after == First({b \in books' : b.id = book_id})
    IN  [op |-> "update_book", new_title |-> new_title, new_year |-> new_year,
         found |-> before # None,
         title_new |-> after # None /\ new_title # None /\ after[1].title = new_title[1],
         year_new |-> after # None /\ new_year # None /\ after[1].year = new_year,
         title_kept |-> before # None /\ after # None /\ after[1].title = before[1].title,
         year_kept |-> before # None /\ after # None /\ after[1].year = before[1].year,
         rest_same |-> /\ authors' = authors
                       /\ {b \in books' : b.id # book_id} = {b \in books : b.id # book_id}
                       /\ (before = None) = (after = None)
                       /\ before # None => after[1].author_id = before[1].author_id,
         returned |-> returned]

\* update_book, lines 130-148
update_book(book_id, new_title, new_year) ==
    /\ \E found \in {First({b \in books : b.id = book_id})} :
          IF found = None
          THEN /\ UNCHANGED <<authors, books>>
               /\ last_call' = Updated(book_id, new_title, new_year, "None")
          ELSE /\ books' = (books \ {found[1]}) \cup
                     {[found[1] EXCEPT
                         !.title = IF TruthyStr(new_title) THEN new_title[1] ELSE @,
                         !.year = IF TruthyInt(new_year) THEN new_year ELSE @]}
               /\ UNCHANGED authors
               /\ last_call' = Updated(book_id, new_title, new_year, "book")
    /\ UNCHANGED <<gatevars, apivars, sqlvars, mongovars>>

\* delete_book, lines 152-160
delete_book(book_id) ==
    /\ books' = {b \in books : b.id # book_id}
    /\ last_call' = [op |-> "delete_book"]
    /\ UNCHANGED authors
    /\ UNCHANGED <<gatevars, apivars, sqlvars, mongovars>>

NextOrm ==
    \/ \E title \in BookTitles, author_name \in AuthorNames, year \in BookYears :
          create_book(title, author_name, year)
    \/ \E book_id \in BookIds, new_title \in NewTitles, new_year \in NewYears :
          update_book(book_id, new_title, new_year)
    \/ \E book_id \in BookIds : delete_book(book_id)

SpecOrm == Init /\ [][NextOrm]_vars

\* ------------------------------------------------------------ the claims
\* the request in hand, read as the wire format says
ReqParts == Split(auth_header.value)
Shaped(parts) == Len(parts) = 2 /\ Lower(parts[1]) = bearer
WellFormedHeader == auth_header.present /\ Shaped(ReqParts)
ReqToken == ReqParts[2]
BearerOf(t) == Header(BearerWord \o <<SP>> \o t)

\* a segment of base64url without padding
SegOk(seg) == seg # <<>> /\ Len(seg) % 4 # 1 /\ \A i \in 1..Len(seg) : IsB64(seg[i])

\* t splits on '.' into three pieces; g below is SegmentsOf(t) of such a t
Three(t) == Cardinality({i \in 1..Len(t) : t[i] = DOT}) = 2
SegsOk(g) == SegOk(g.h) /\ SegOk(g.p) /\ SegOk(g.s)

\* exactly three non-empty base64url segments
SpecDecodes(t) == Three(t) /\ SegsOk(SegmentsOf(t))

\* the signature segment is the keyed hash, under key k, of the two
\* segments before it
SignedWith(g, k) == base64url_decode(g.s).bytes = HMAC(k, g.h \o <<DOT>> \o g.p)

HeaderOf(g) == json_loads_header(base64url_decode(g.h).bytes)
ClaimsOf(g) == json_loads_payload(base64url_decode(g.p).bytes)
IsHS256(g) == HeaderOf(g) = [ok |-> TRUE, alg |-> "HS256"]

\* three base64url segments with the HS256 header, signed with the
\* server's key
CorrectlySigned(g) == SegsOk(g) /\ IsHS256(g) /\ SignedWith(g, JWT_SECRET_KEY)

Granted == invoked /\ response.status = 200 /\ raised = "ok"
Denied(kind, msg) ==
    /\ ~invoked
    /\ response = [status |-> 401, error |-> msg]
    /\ raised = kind
    /\ jwt_payload = NoPayload

\* C1: the wrapped view runs only after a Granted decision: whenever it was
\* invoked, the header was present and of the shape "Bearer <token>" and
\* jwt.decode accepted the token at that time; on every other path (no
\* header, misshapen header, any exception of jwt.decode) it was not invoked,
\* the answer is not 200 and nothing was attached to the request.
C1_InvokedOnlyWhenGranted ==
    phase = "secret" =>
        LET parts == ReqParts
            ok == /\ auth_header.present /\ Shaped(parts)
                  /\ jwt_decode(parts[2], JWT_SECRET_KEY, clock, TRUE).kind = "ok"
        IN  /\ invoked => ok /\ response.status = 200
            /\ ~ok => ~invoked /\ response.status # 200 /\ jwt_payload = NoPayload

\* a token the server issued is presented in the second it expires and is
\* turned away without the view running
C1_Witness ==
    /\ phase = "secret"
    /\ \E r \in issued : auth_header = BearerOf(r.token)
                          /\ clock >= r.at + JWT_EXPIRATION_DELTA
    /\ raised = "ExpiredSignatureError"
    /\ ~invoked

\* C2: round trip: the token generated for a non-empty subject s at time t,
\* presented at time t + 1, is Granted and the claims attached to the request
\* carry s as their subject.
C2_RoundTrip ==
    \A r \in issued :
        (phase = "secret" /\ r.sub # "" /\ clock = r.at + 1
            /\ auth_header = BearerOf(r.token))
        => /\ Granted
           /\ jwt_payload.ok /\ jwt_payload.sub_t = "str" /\ jwt_payload.sub = r.sub

C2_Witness ==
    /\ phase = "secret"
    /\ \E r \in issued : /\ auth_header = BearerOf(r.token)
                          /\ r.sub = "usuario_demo" /\ clock = r.at + 1
    /\ invoked

\* C3: expiry boundary: a correctly signed token with well-formed claims
\* (a string subject, an issue time that is not in the future) and
\* expiration time e is answered ExpiredToken ("Token expirado") at every
\* time now >= e, the second e included, and is Granted at every time
\* now < e, the second e - 1 included.
C3_ExpiryBoundary ==
    (phase = "secret" /\ auth_header.present) =>
        LET parts == ReqParts
            g == SegmentsOf(parts[2])
            c == ClaimsOf(g)
        IN  (Shaped(parts) /\ Three(parts[2]) /\ CorrectlySigned(g) /\ c.ok
                /\ c.exp_t = "int" /\ c.sub_t = "str"
                /\ (c.iat_t = "absent" \/ (c.iat_t = "int" /\ c.iat <= clock)))
            => /\ clock >= c.exp => Denied("ExpiredSignatureError", "Token expirado")
               /\ clock < c.exp => Granted

\* the token issued at T0 is presented exactly at its expiration time and
\* is answered ExpiredToken
C3_Witness ==
    /\ phase = "secret"
    /\ \E r \in issued : /\ auth_header = BearerOf(r.token)
                          /\ clock = r.at + JWT_EXPIRATION_DELTA
                          /\ ClaimsOf(SegmentsOf(r.token)).exp = clock
    /\ Denied("ExpiredSignatureError", "Token expirado")

\* the header value hv is "Bearer " followed by tok with exactly one
\* character, one of its payload segment, changed
IsPayloadTamper(hv, tok) ==
    LET pre == BearerWord \o <<SP>>
        g == SegmentsOf(tok)
        diff == {i \in 1..Len(tok) : hv[Len(pre) + i] # tok[i]}
    IN  /\ Len(hv) = Len(pre) + Len(tok)
        /\ SubSeq(hv, 1, Len(pre)) = pre
        /\ Cardinality(diff) = 1
        /\ \A i \in diff : g.first < i /\ i < g.last

\* the character that was put in
TamperChar(hv, tok) ==
    LET pre == BearerWord \o <<SP>>
    IN  hv[Len(pre) + (CHOOSE i \in 1..Len(tok) : hv[Len(pre) + i] # tok[i])]

C5_SecretSensitivity ==
    (phase = "secret" /\ auth_header.present) =>
        LET parts == ReqParts
            g == SegmentsOf(parts[2])
        IN  (Shaped(parts) /\ Three(parts[2]) /\ SegsOk(g) /\ IsHS256(g)
                /\ \E k \in Keys \ {JWT_SECRET_KEY} : SignedWith(g, k))
            => Denied("InvalidSignatureError", "Token invalido o ausente")

\* a token signed under another key, with the claims the issuer writes and
\* an expiration time that has passed, is answered InvalidSignature
C5_Witness ==
    /\ phase = "secret" /\ WellFormedHeader /\ SpecDecodes(ReqToken)
    /\ LET g == SegmentsOf(ReqToken)
           c == ClaimsOf(g)
       IN  /\ \E k \in Keys \ {JWT_SECRET_KEY} : SignedWith(g, k)
           /\ c.ok /\ c.sub_t = "str" /\ c.iat_t = "int"
           /\ c.exp_t = "int" /\ c.exp <= clock
    /\ raised = "InvalidSignatureError"

\* C6 as stated: a request without Authorization header is denied, the view
\* is not invoked, and the reason given tells the missing header apart from
\* a header that is present but misshapen ("Token abc").
C6_Original ==
    (phase = "secret" /\ ~auth_header.present)
    => /\ ~invoked
       /\ response.status = 401
       /\ response.error
            # decorated_function(Header(TokenWord \o <<SP>> \o abc), clock).error

\* C7: a header that is present but is not two whitespace-separated fields
\* the first of which is "Bearer" in any letter case (the empty string
\* included) is denied with the reason of a misshapen header, jwt.decode is
\* not called and the view is not invoked.
C7_MalformedHeader ==
    (phase = "secret" /\ auth_header.present /\ ~Shaped(ReqParts))
    => Denied("none", "Token invalido ")

\* a token the server issued, still valid, sent under the scheme "Token"
C7_Witness ==
    /\ phase = "secret"
    /\ \E r \in issued : /\ auth_header = Header(TokenWord \o <<SP>> \o r.token)
                          /\ clock < r.at + JWT_EXPIRATION_DELTA
    /\ ~invoked

\* the checks of the four steps on a token of three base64url segments:
\* the signature, the structure of the claims, the expiry
SigBad(g) == ~SignedWith(g, JWT_SECRET_KEY)
ClaimsBad(c) == ~c.ok \/ c.sub_t # "str" \/ c.exp_t # "int"
Expired(c) == c.ok /\ c.exp_t = "int" /\ clock >= c.exp

\* C8 as stated: the checks run in the order decode, signature, claims
\* structure, expiry, and the first one that fails decides the reason: on a
\* token on which two of them fail, the reason is that of the earlier one.
C8_Original ==
    (phase = "secret" /\ WellFormedHeader /\ SpecDecodes(ReqToken)) =>
        LET g == SegmentsOf(ReqToken)
            c == ClaimsOf(g)
        IN  IsHS256(g)
            => /\ (SigBad(g) /\ (ClaimsBad(c) \/ Expired(c)))
                    => raised = "InvalidSignatureError"
               /\ (~SigBad(g) /\ ClaimsBad(c) /\ Expired(c))
                    => raised = "DecodeError"

\* the two instances C8 names do hold: a token whose signature is wrong is
\* answered InvalidSignature whatever its claims and its expiration time
C8_SignatureFirst ==
    (phase = "secret" /\ WellFormedHeader /\ SpecDecodes(ReqToken)) =>
        LET g == SegmentsOf(ReqToken)
        IN  (IsHS256(g) /\ SigBad(g))
            => Denied("InvalidSignatureError", "Token invalido o ausente")

\* C9 as stated: a correctly signed token whose claims lack the subject or
\* the expiration time, or carry one of them with a wrong type, is denied
\* as a malformed token and never Granted.
C9_Original ==
    (phase = "secret" /\ WellFormedHeader /\ Three(ReqToken)) =>
        LET g == SegmentsOf(ReqToken)
            c == ClaimsOf(g)
        IN  (CorrectlySigned(g) /\ c.ok /\ (c.sub_t # "str" \/ c.exp_t # "int"))
            => /\ ~invoked
               /\ response = [status |-> 401, error |-> "Token invalido o ausente"]
               /\ raised \in {"DecodeError", "InvalidSubjectError"}

\* C10 as stated: a token that is not exactly three non-empty base64url
\* segments is denied as a malformed token and never Granted.
C10_Original ==
    (phase = "secret" /\ WellFormedHeader /\ ~SpecDecodes(ReqToken))
    => Denied("DecodeError", "Token invalido o ausente")

\* C11: issuance builds the claims from the given subject and the issuance
\* instant now, in whole seconds: sub is the subject, iat = now - 1 and
\* exp = now + the validity window, which is 3600 seconds; the subject
\* "usuario_demo" at now = 1000 gets iat 999 and exp 4600; exp > iat for
\* every issued token. The claims are read back from the token's payload
\* segment, and the token carries the HS256 header and the server's
\* signature. (The tokens issued change with an issuance or a login only, so
\* they are looked at in the states those leave.)
C11_IssuedClaims ==
    phase # "secret" => \A r \in issued :
        LET g == SegmentsOf(r.token)
            c == ClaimsOf(g)
        IN  /\ Three(r.token) /\ CorrectlySigned(g)
            /\ c = [ok |-> TRUE, sub_t |-> "str", sub |-> r.sub,
                    iat_t |-> "int", iat |-> r.at - 1,
                    exp_t |-> "int", exp |-> r.at + JWT_EXPIRATION_DELTA]
            /\ JWT_EXPIRATION_DELTA = 3600
            /\ c.exp > c.iat
            /\ (r.sub = "usuario_demo" /\ r.at = 1000) => (c.iat = 999 /\ c.exp = 4600)

\* the token made for "usuario_demo" at the start
C11_Witness ==
    \E r \in issued :
        /\ r.sub = "usuario_demo" /\ r.at = T0
        /\ ClaimsOf(SegmentsOf(r.token)).iat = T0 - 1
        /\ ClaimsOf(SegmentsOf(r.token)).exp = T0 + JWT_EXPIRATION_DELTA

\* C12 as stated: issuing a token for the empty subject fails and produces no
\* token: every token that was produced is for a non-empty subject.
C12_Original ==
    \A r \in issued : r.sub # ""

\* C13 as stated: every request to the gate ends in a decision, Granted or
\* Denied (unauthorized, the view not invoked), whatever the header and the
\* token: no input makes it end in an error the gate does not handle.
C13_Original ==
    phase = "secret" =>
        \/ Granted
        \/ /\ response.status = 401 /\ ~invoked
           /\ raised \notin {"ok", "TypeError"}

C15_LoginIssues ==
    [][\A u \in Usernames, p \in Passwords :
          Login(u, p) =>
              IF u = "usuario_demo" /\ p = "password123"
              THEN /\ response' = [status |-> 200, error |-> ""]
                   /\ LET g == SegmentsOf(login_out'.token)
                          c == ClaimsOf(g)
                      IN  /\ Three(login_out'.token) /\ CorrectlySigned(g)
                          /\ c.ok /\ c.sub_t = "str" /\ c.sub = u
                          /\ c.exp_t = "int" /\ c.exp = clock + JWT_EXPIRATION_DELTA
                          /\ login_out'.expires_at = isoformat(c.exp)
                          /\ issued' = issued \cup {[token |-> login_out'.token,
                                                     sub |-> u, at |-> clock]}
              ELSE /\ response' = [status |-> 401, error |-> "Credenciales invalidas"]
                   /\ login_out' = NoLogin
                   /\ issued' = issued
      ]_vars

\* a login with the stored credentials has answered with a token for
\* "usuario_demo" and the expiry of that token
C15_Witness ==
    /\ phase = "login"
    /\ response.status = 200
    /\ login_out.token # <<>>
    /\ ClaimsOf(SegmentsOf(login_out.token)).sub = "usuario_demo"
    /\ login_out.expires_at = isoformat(clock + JWT_EXPIRATION_DELTA)

\* the value is a scheme word "Bearer" in any letter case, one single
\* space, and a token without whitespace, and nothing else
StrictShape(v) ==
    /\ Len(v) > Len(bearer) + 1
    /\ Lower(SubSeq(v, 1, Len(bearer))) = bearer
    /\ v[Len(bearer) + 1] = SP
    /\ \A j \in (Len(bearer) + 2)..Len(v) : ~IsSpace(v[j])

\* C16 as stated: the header is accepted only as scheme, one single space,
\* token: a token that is valid is Granted under "Bearer", "bearer" and
\* "BEARER", and a header with two spaces or a tab between scheme and token,
\* or with leading or trailing whitespace, is not accepted.
C16_Original ==
    (phase = "secret" /\ auth_header.present) =>
        /\ \A r \in issued :
              (/\ clock < r.at + JWT_EXPIRATION_DELTA
               /\ \E w \in {BearerWord, bearer, BEARERWord} :
                     auth_header.value = w \o <<SP>> \o r.token)
              => Granted
        /\ ~StrictShape(auth_header.value) => ~invoked

\* the first half of C16 does hold: the scheme word is compared without
\* regard to letter case
C16_CaseVariants ==
    (phase = "secret" /\ auth_header.present) =>
        \A r \in issued :
            (/\ clock < r.at + JWT_EXPIRATION_DELTA
             /\ \E w \in {BearerWord, bearer, BEARERWord} :
                   auth_header.value = w \o <<SP>> \o r.token)
            => Granted /\ jwt_payload.sub = r.sub

\* the claims carry a text subject, an integer expiration time and, when
\* they carry an issue time, an integer one
WellFormedClaims(c) ==
    c.ok /\ c.sub_t = "str" /\ c.exp_t = "int" /\ c.iat_t \in {"absent", "int"}

C18_ClaimsAttached ==
    phase = "secret" =>
        /\ invoked =>
              /\ WellFormedHeader
              /\ jwt_payload.ok
              /\ jwt_payload = ClaimsOf(SegmentsOf(ReqToken))
        /\ ~Granted => jwt_payload = NoPayload

\* a token of the server is Granted and the view sees its subject, issue
\* time and expiration time
C18_Witness ==
    /\ phase = "secret" /\ Granted
    /\ \E r \in issued :
          /\ auth_header = BearerOf(r.token)
          /\ jwt_payload.ok
          /\ jwt_payload.sub = "usuario_demo" /\ r.sub = "usuario_demo"
          /\ jwt_payload.iat = r.at - 1
          /\ jwt_payload.exp = r.at + JWT_EXPIRATION_DELTA

\* C19: with requests to the gate and logins interleaved in every way, the
\* answer to each request is the one the gate gives to its own header at the
\* time it decoded the token, and when its view runs the claims it sees are
\* those of the token of its own header: a request that presents the token
\* of one subject never runs the view with the claims of another.
C19_Isolation ==
    \A i \in Reqs :
        ctx[i].pc = "done" =>
            LET d == decorated_function(ctx[i].header, ctx[i].at)
            IN  /\ ctx[i].response = [status |-> d.status, error |-> d.error]
                /\ ctx[i].invoked = d.invoked
                /\ ctx[i].invoked =>
                      /\ ctx[i].seen = d.jwt_payload
                      /\ \A r \in issued :
                            ctx[i].header = BearerOf(r.token) => ctx[i].seen.sub = r.sub

\* one request has run the view with the claims of "usuario_demo" while
\* another, presenting the token of "otro", has its claims attached and is
\* about to run the view, and a login is being answered
C19_Witness ==
    /\ phase = "login"
    /\ \E i, j \in Reqs :
          /\ ctx[i].pc = "done" /\ ctx[i].invoked /\ ctx[i].seen.sub = "usuario_demo"
          /\ ctx[j].pc = "invoke" /\ attached[ContextOf(j)].sub = "otro"

\* C20: only HS256 tokens are accepted: a token whose header names another
\* algorithm, or none (also with an empty signature), or no algorithm at
\* all, is never Granted, whatever its payload, its signature and the time:
\* it is denied as an invalid token.
C20_OnlyHS256 ==
    (phase = "secret" /\ auth_header.present) =>
        LET parts == ReqParts
            g == SegmentsOf(parts[2])
            hd == HeaderOf(g)
        IN  (Shaped(parts) /\ Three(parts[2]) /\ hd.ok /\ hd.alg # "HS256")
            => /\ ~invoked
               /\ response = [status |-> 401, error |-> "Token invalido o ausente"]
               /\ raised \in {"InvalidAlgorithmError", "DecodeError"}
               /\ jwt_payload = NoPayload

\* a token with the algorithm "none", an empty signature and claims that
\* have not expired is presented and denied for its algorithm
C20_Witness ==
    /\ phase = "secret" /\ WellFormedHeader /\ Three(ReqToken)
    /\ LET g == SegmentsOf(ReqToken)
           c == ClaimsOf(g)
       IN  /\ HeaderOf(g) = [ok |-> TRUE, alg |-> "none"]
           /\ g.s = <<>>
           /\ WellFormedClaims(c) /\ clock < c.exp
    /\ raised = "InvalidAlgorithmError"
    /\ ~invoked

\* -------------------------------------------------------------------
\* C21: after any sequence of POST /authors, POST /books, PUT /books/<id>
\* and DELETE /books/<id> requests every stored book's author_id is the id
\* of a stored author; and a POST /books whose title is missing, whose
\* author_id is missing or whose author_id is the id of no author was
\* answered 400 and left the set of books as it was.
\* -------------------------------------------------------------------
NamesNoAuthor(author_id) == \A a \in api_authors : a.id # author_id[1]

C21_ReferentialIntegrity ==
    /\ \A b \in api_books : \E a \in api_authors : a.id = b.author_id
    /\ (/\ api_last.op = "add_book"
        /\ \/ api_last.title = None
           \/ api_last.author_id = None
           \/ NamesNoAuthor(api_last.author_id))
       => (api_last.status = 400 /\ api_last.unchanged)

\* a book is stored, and a POST /books that names an author who does not
\* exist has just been refused
C21_Witness ==
    /\ api_books # {}
    /\ api_last.op = "add_book"
    /\ api_last.title # None
    /\ api_last.author_id # None
    /\ NamesNoAuthor(api_last.author_id)
    /\ api_last.status = 400

\* -------------------------------------------------------------------
\* C22: the grouped operation of the MongoDB program is all-or-nothing:
\* ejemplo_transaccion returns True only if it stored the author
\* 'Autor transacción' and both books, and when it returns False the two
\* collections hold exactly the documents they held before the call, also
\* when it is called again after a successful call on a database whose
\* autores.nombre index is unique.
\* -------------------------------------------------------------------
C22_Original ==
    mongo_last.op = "ejemplo_transaccion" =>
        /\ mongo_last.ret => mongo_last.inserted
        /\ ~mongo_last.ret => mongo_last.same

\* the half of C22 that the code keeps: True is returned only after the
\* author and both books were stored
C22_TrueOnlyIfInserted ==
    (mongo_last.op = "ejemplo_transaccion" /\ mongo_last.ret) => mongo_last.inserted

\* the case C22 names: on a database with the unique index a call that
\* follows a successful call returns False and removes documents
C22_SecondCallRemoves ==
    /\ mongo_last.op = "ejemplo_transaccion"
    /\ mongo_last.again
    /\ ~mongo_last.ret
    /\ ~mongo_last.same

\* -------------------------------------------------------------------
\* C23: after ejemplo_transaccion of the sqlite3 program returns, either
\* the author 'Autor transacción' and the book 'Libro TX' that refers to
\* that author's id are both committed, or, when a statement raised
\* sqlite3.Error, neither row is present and every row committed before is
\* unchanged.
\* -------------------------------------------------------------------
C23_Atomic ==
    tx_last.op = "ejemplo_transaccion" =>
        /\ ~tx_last.error => tx_last.both
        /\ tx_last.error => tx_last.neither
        /\ ~in_transaction => working = committed

\* the book insert raised after the author insert had succeeded, on a
\* database that holds committed rows: the author is gone and the committed
\* rows are as they were
C23_Witness ==
    /\ tx_last.op = "ejemplo_transaccion"
    /\ tx_last.error
    /\ tx_last.at = "libro"
    /\ tx_last.neither
    /\ committed.autores # {}
    /\ working = committed

\* -------------------------------------------------------------------
\* C24: update_book of the ORM functions changes exactly the fields for
\* which a new value is supplied: for an existing book the title becomes
\* new_title whenever new_title is given and the year becomes new_year
\* whenever new_year is given (0 and the empty string included), a field
\* whose argument is None stays, every other book and every author stays,
\* and the updated book is returned; when no book has the id, None is
\* returned and nothing changes.
\* -------------------------------------------------------------------
C24_Original ==
    last_call.op = "update_book" =>
        /\ last_call.rest_same
        /\ IF ~last_call.found THEN last_call.returned = "None"
           ELSE /\ last_call.returned = "book"
                /\ IF last_call.new_title # None THEN last_call.title_new
                   ELSE last_call.title_kept
                /\ IF last_call.new_year # None THEN last_call.year_new
                   ELSE last_call.year_kept

\* what the code keeps of C24: the frame (other books, authors, unknown
\* ids, a None argument), and the update itself for titles other than ""
\* and years other than 0
C24_TruthyValues ==
    last_call.op = "update_book" =>
        /\ last_call.rest_same
        /\ IF ~last_call.found THEN last_call.returned = "None"
           ELSE /\ last_call.returned = "book"
                /\ IF TruthyStr(last_call.new_title) THEN last_call.title_new
                   ELSE last_call.title_kept
                /\ IF TruthyInt(last_call.new_year) THEN last_call.year_new
                   ELSE last_call.year_kept

\* a book whose year is not 0 was updated with new_year = 0 and kept its
\* year
C24_ZeroYearIgnored ==
    /\ last_call.op = "update_book"
    /\ last_call.found
    /\ last_call.new_year = Some(0)
    /\ last_call.year_kept
    /\ ~last_call.year_new

\* -------------------------------------------------------------------
\* C25: create_book of the ORM functions reuses an existing author: on a
\* database that was empty at the start there is at most one Author row
\* per name, each call adds exactly one Book row, and the new book's author
\* is the Author row with the requested name.
\* -------------------------------------------------------------------
C25_AuthorReused ==
    /\ \A a, b \in authors : a.name = b.name => a = b
    /\ last_call.op = "create_book" =>
          /\ last_call.added = 1
          /\ last_call.kept
          /\ last_call.author_ok

\* a second book was created for an author who already had one, and the
\* author was not stored again
C25_Witness ==
    /\ last_call.op = "create_book"
    /\ last_call.reused
    /\ last_call.added = 1
    /\ Cardinality(authors) = 1
    /\ Cardinality(books) = 2
    /\ \A b \in books : \E x \in authors : x.id = b.author_id /\ x.name = last_call.author_name

====
